---- MODULE Spec2Model ----
(***************************************************************************)
(* Model of py2pddl/init.py: the interactive generator `init(filename)`    *)
(* that checks the destination, asks four questions, renders a skeleton    *)
(* and writes it to the destination file.                                  *)
(*                                                                         *)
(* Text is a sequence of pieces.  A piece is one character typed by the    *)
(* user, the newline NL, or a fragment of literal template text (a         *)
(* fragment never contains a newline).  Concatenating the pieces gives     *)
(* the Python string; \o on sequences is Python's + on strings.            *)
(***************************************************************************)
EXTENDS Naturals, Sequences, FiniteSets, TLC

\* ---------------------------------------------------------------- bounds
\* Characters typed in total at the four prompts of one run.
MaxTyped == 5

\* ------------------------------------------------------------ characters
NL == "\n"
SPACE == " "
TAB == "\t"

\* The characters a user types: the space, another whitespace character,
\* a lower-case letter and an upper-case letter.
Alphabet == {SPACE, TAB, "a", "A"}

\* str.lstrip()/str.rstrip() with no argument strip every whitespace
\* character, not only the space.
IsWhitespace(c) == c \in {SPACE, TAB, NL}

IsCased(c) == c \in {"a", "A"}

Upper(c) == IF c = "a" THEN "A" ELSE c

Lower(c) == IF c = "A" THEN "a" ELSE c

\* Every string of at most n typed characters.
Strings(n) == UNION {[1..k -> Alphabet] : k \in 0..n}

\* ------------------------------------------------------ string functions
RECURSIVE lstrip(_)
lstrip(s) ==
    IF s # <<>> /\ IsWhitespace(Head(s)) THEN lstrip(Tail(s)) ELSE s

RECURSIVE rstrip(_)
rstrip(s) ==
    IF s # <<>> /\ IsWhitespace(s[Len(s)])
    THEN rstrip(SubSeq(s, 1, Len(s) - 1))
    ELSE s

\* s.lstrip().rstrip()
strip(s) == rstrip(lstrip(s))

\* Index of the first space of s, 0 when there is none.
FirstSpace(s) ==
    IF \E i \in 1..Len(s) : s[i] = SPACE
    THEN CHOOSE i \in 1..Len(s) : s[i] = SPACE /\ \A j \in 1..(i - 1) : s[j] # SPACE
    ELSE 0

\* A split that drops empty tokens, as str.split() without a separator does.
RECURSIVE split_dropping_empty(_)
split_dropping_empty(s) ==
    LET i == FirstSpace(s)
        rest == IF i = 0 THEN <<>> ELSE split_dropping_empty(SubSeq(s, i + 1, Len(s)))
        tok == IF i = 0 THEN s ELSE SubSeq(s, 1, i - 1)
    IN  IF tok = <<>> THEN rest ELSE <<tok>> \o rest

\* s.split(" "): cut at every single space; the empty string gives one
\* empty token, two adjacent spaces give an empty token between them.
RECURSIVE split(_)
split(s) ==
    LET i == FirstSpace(s)
    IN  IF i = 0
        THEN <<s>>
        ELSE <<SubSeq(s, 1, i - 1)>> \o split(SubSeq(s, i + 1, Len(s)))

\* s.lower()
lower(s) == [i \in 1..Len(s) |-> Lower(s[i])]

\* s.title(): a cased character is upper-cased when the character before it
\* is not cased (or there is none) and lower-cased otherwise.
title(s) ==
    [i \in 1..Len(s) |->
        IF i > 1 /\ IsCased(s[i - 1]) THEN Lower(s[i]) ELSE Upper(s[i])]

\* s.capitalize(): first character upper-cased, the rest lower-cased.
capitalize_name(s) == <<Upper(s[1])>> \o lower(Tail(s))

\* class_name[0].upper() + class_name[1:]   (s is not empty)
upper_first(s) == <<Upper(s[1])>> \o Tail(s)

\* sep.join(parts)
RECURSIVE join(_, _)
join(sep, parts) ==
    IF parts = <<>> THEN <<>>
    ELSE IF Len(parts) = 1 THEN parts[1]
    ELSE parts[1] \o sep \o join(sep, Tail(parts))

\* [f(x) for x in xs]
Map(f(_), xs) == [i \in 1..Len(xs) |-> f(xs[i])]

\* A token list without its repetitions (first occurrence kept).
dedupe(xs) ==
    LET keep == {i \in 1..Len(xs) : \A j \in 1..(i - 1) : xs[j] # xs[i]}
        RECURSIVE pick(_)
        pick(i) == IF i > Len(xs) THEN <<>>
                   ELSE (IF i \in keep THEN <<xs[i]>> ELSE <<>>) \o pick(i + 1)
    IN  pick(1)

\* ------------------------------------------------------------- fragments
NamePrompt == "Name: "
\* The Types exchange asking for the predicates.
TypesPromptSwapped == "Predicates (separated by space): "
TypesPrompt == "Types (separated by space): "
PredicatesPrompt == "Predicates (separated by space): "
ActionsPrompt == "Actions (separated by space): "

filename == "rocket.py"
Confirmation == "File written to " \o filename

\* What a destination that exists before the run holds.
OldContent == <<"# an earlier file", NL>>

domain_header(class_name) ==
    <<"from py2pddl import Domain, create_type, create_objs", NL,
      "from py2pddl import predicate, action, goal, init", NL,
      NL,
      NL,
      "class ">> \o class_name \o <<"Domain(Domain):", NL>>

type_line(typ) ==
    <<"    ">> \o typ \o <<" = create_type(\"">> \o typ \o <<"\")", NL>>

\* A type section that leaves out the tokens that are empty.
section_types_skipping_empty(types) ==
    join(<<>>, Map(type_line, SelectSeq(types, LAMBDA typ : typ # <<>>)))

section_types(types) == join(<<>>, Map(type_line, types))

predicate_block(predicate) ==
    <<"    @predicate(...)", NL,
      "    def ">> \o predicate \o <<"(self):", NL,
      "        \"\"\"Complete the method signature\"\"\"", NL>>

\* A predicate section that renders a repeated token once.
section_predicate_deduped(predicates) ==
    join(<<NL>>, Map(predicate_block, dedupe(predicates)))

section_predicate(predicates) == join(<<NL>>, Map(predicate_block, predicates))

action_block(action) ==
    <<"    @action(...)", NL,
      "    def ">> \o action \o <<"(self):", NL,
      "        \"\"\"This should be a pass\"\"\"", NL,
      "        precond: list = None  # to fill in", NL,
      "        effect: list = None  # to fill in", NL,
      "        return precond, effect", NL>>

section_action(actions) == join(<<NL>>, Map(action_block, actions))

\* A problem header whose literal does not start with a newline.
problem_header_no_lead(class_name) ==
    <<"class ">> \o class_name \o <<"Problem(">> \o class_name \o <<"Domain):", NL>>

\* The literal opens with a newline: f""" is not followed by a backslash.
problem_header(class_name) ==
    <<NL, "class ">> \o class_name \o <<"Problem(">> \o class_name \o <<"Domain):", NL>>

section_object ==
    <<"    def __init__(self):", NL,
      "        \"\"\"To fill in\"\"\"", NL>>

section_init ==
    <<"    @init", NL,
      "    def init(self) -> list:", NL,
      "        # To fill in", NL,
      "        # Return type is a list", NL,
      "        return None", NL>>

section_goal ==
    <<"    @goal", NL,
      "    def goal(self) -> list:", NL,
      "        # To fill in", NL,
      "        # Return type is a list", NL,
      "        return None", NL>>

render(class_name, types, predicates, actions) ==
    domain_header(class_name) \o <<NL>> \o section_types(types) \o <<NL>> \o
    section_predicate(predicates) \o <<NL>> \o section_action(actions) \o
    <<NL>> \o problem_header(class_name) \o <<NL>> \o section_object \o
    <<NL>> \o section_init \o <<NL>> \o section_goal

\* ----------------------------------------------------------------- state
VARIABLES
    pc,               \* the statement init() is at
    error,            \* the exception init() ended with, "none" without one
    fileExists,       \* the destination path exists
    fileContent,      \* what the destination holds on storage
    fileOpen,         \* the handle f is open
    buffered,         \* text written to f and not yet flushed to storage
    writes,           \* calls of f.write made so far
    out,              \* what was printed to standard output, in order
    answered,         \* answers read from standard input so far
    path_exists,      \* what path.exists() returned
    name_answer,      \* the Name answer after trimming
    class_name,
    user_types,
    types,
    user_predicates,
    predicates,
    user_actions,
    actions,
    template

vars == <<pc, error, fileExists, fileContent, fileOpen, buffered, writes, out,
          answered, path_exists, name_answer, class_name, user_types, types,
          user_predicates, predicates, user_actions, actions, template>>

io == <<fileExists, fileContent, fileOpen, buffered, writes>>
answers == <<name_answer, class_name, user_types, types, user_predicates,
             predicates, user_actions, actions>>

Init ==
    /\ pc = "check"
    /\ error = "none"
    /\ fileExists \in BOOLEAN
    /\ fileContent = IF fileExists THEN OldContent ELSE <<>>
    /\ fileOpen = FALSE
    /\ buffered = <<>>
    /\ writes = 0
    /\ out = <<>>
    /\ answered = 0
    /\ path_exists = FALSE
    /\ name_answer = <<>>
    /\ class_name = <<>>
    /\ user_types = <<>>
    /\ types = <<>>
    /\ user_predicates = <<>>
    /\ predicates = <<>>
    /\ user_actions = <<>>
    /\ actions = <<>>
    /\ template = <<>>

\* The characters of the answers kept so far (the bound of the model is on
\* their total).
Typed == Len(name_answer) + Len(user_types) + Len(user_predicates) + Len(user_actions)

\* An exception leaves init(): nothing after the raising statement runs.
Raise(e) == error' = e /\ pc' = "done"

\* A destination test that never raises.
CheckDestinationSkipped ==
    /\ pc = "check"
    /\ path_exists' = fileExists
    /\ pc' = "name"
    /\ UNCHANGED <<error, io, out, answered, answers, template>>

\* path = Path(filename); if path.exists(): raise FileExistsError(...)
CheckDestination ==
    /\ pc = "check"
    /\ path_exists' = fileExists
    /\ IF fileExists THEN Raise("FileExistsError")
                     ELSE pc' = "name" /\ UNCHANGED error
    /\ UNCHANGED <<io, out, answered, answers, template>>

\* input(prompt) prints the prompt and then reads a line; at end of input
\* it raises EOFError.
EndOfInput(prompt) ==
    /\ out' = Append(out, prompt)
    /\ Raise("EOFError")
    /\ UNCHANGED <<io, answered, path_exists, answers, template>>

\* class_name = input("Name: "); strip; class_name[0].upper() + class_name[1:]
\* Indexing the empty string raises IndexError.
PromptName ==
    /\ pc = "name"
    /\ \/ EndOfInput(NamePrompt)
       \/ \E ans \in Strings(MaxTyped) :
            /\ out' = Append(out, NamePrompt)
            /\ answered' = answered + 1
            /\ name_answer' = strip(ans)
            /\ IF strip(ans) = <<>>
               THEN /\ class_name' = <<>>
                    /\ Raise("IndexError")
               ELSE /\ class_name' = upper_first(strip(ans))
                    /\ pc' = "types"
                    /\ UNCHANGED error
            /\ UNCHANGED <<io, path_exists, user_types, types, user_predicates,
                           predicates, user_actions, actions, template>>

PromptTypes ==
    /\ pc = "types"
    /\ \/ EndOfInput(TypesPrompt)
       \/ \E ans \in Strings(MaxTyped - Typed) :
            /\ out' = Append(out, TypesPrompt)
            /\ answered' = answered + 1
            /\ user_types' = strip(ans)
            /\ types' = Map(title, split(strip(ans)))
            /\ pc' = "predicates"
            /\ UNCHANGED <<error, io, path_exists, name_answer, class_name,
                           user_predicates, predicates, user_actions, actions,
                           template>>

PromptPredicates ==
    /\ pc = "predicates"
    /\ \/ EndOfInput(PredicatesPrompt)
       \/ \E ans \in Strings(MaxTyped - Typed) :
            /\ out' = Append(out, PredicatesPrompt)
            /\ answered' = answered + 1
            /\ user_predicates' = strip(ans)
            /\ predicates' = Map(lower, split(strip(ans)))
            /\ pc' = "actions"
            /\ UNCHANGED <<error, io, path_exists, name_answer, class_name,
                           user_types, types, user_actions, actions, template>>

PromptActions ==
    /\ pc = "actions"
    /\ \/ EndOfInput(ActionsPrompt)
       \/ \E ans \in Strings(MaxTyped - Typed) :
            /\ out' = Append(out, ActionsPrompt)
            /\ answered' = answered + 1
            /\ user_actions' = strip(ans)
            /\ actions' = Map(lower, split(strip(ans)))
            /\ pc' = "render"
            /\ UNCHANGED <<error, io, path_exists, name_answer, class_name,
                           user_types, types, user_predicates, predicates,
                           template>>

\* The f-strings and the concatenation into template.
Render ==
    /\ pc = "render"
    /\ template' = render(class_name, types, predicates, actions)
    /\ pc' = "open"
    /\ UNCHANGED <<error, io, out, answered, path_exists, answers>>

\* open(filename, "w", encoding="utf-8"): creates or truncates the file, or
\* raises OSError and creates nothing.
OpenFile ==
    /\ pc = "open"
    /\ \/ /\ fileExists' = TRUE
          /\ fileContent' = <<>>
          /\ fileOpen' = TRUE
          /\ pc' = "write"
          /\ UNCHANGED error
       \/ /\ Raise("OSError")
          /\ UNCHANGED <<fileExists, fileContent, fileOpen>>
    /\ UNCHANGED <<buffered, writes, out, answered, path_exists, answers, template>>

\* What storage may hold of text t after a write of it failed: nothing, or
\* all of it but the last piece.
Truncations(t) == {SubSeq(t, 1, k) : k \in {0, Len(t) - 1}}

\* f.write(template): the text stays in the buffer, or goes through to
\* storage, or the write raises OSError; the with statement then closes f.
WriteFile ==
    /\ pc = "write"
    /\ writes' = writes + 1
    /\ \/ /\ buffered' = template
          /\ pc' = "print"
          /\ UNCHANGED <<error, fileContent, fileOpen>>
       \/ /\ fileContent' = template
          /\ pc' = "print"
          /\ UNCHANGED <<error, buffered, fileOpen>>
       \/ /\ fileContent' \in Truncations(template)
          /\ fileOpen' = FALSE
          /\ Raise("OSError")
          /\ UNCHANGED buffered
    /\ UNCHANGED <<fileExists, out, answered, path_exists, answers, template>>

\* print(f"File written to {filename}"), inside the with block.
PrintConfirmation ==
    /\ pc = "print"
    /\ out' = Append(out, Confirmation)
    /\ pc' = "close"
    /\ UNCHANGED <<error, io, answered, path_exists, answers, template>>

\* Leaving the with block closes f: the buffer is flushed and the handle
\* released; a failing flush raises OSError.
CloseFile ==
    /\ pc = "close"
    /\ fileOpen' = FALSE
    /\ buffered' = <<>>
    /\ \/ /\ fileContent' = fileContent \o buffered
          /\ pc' = "done"
          /\ UNCHANGED error
       \/ /\ buffered # <<>>
          /\ fileContent' \in Truncations(buffered)
          /\ Raise("OSError")
    /\ UNCHANGED <<fileExists, writes, out, answered, path_exists, answers, template>>

Next ==
    \/ CheckDestination
    \/ PromptName
    \/ PromptTypes
    \/ PromptPredicates
    \/ PromptActions
    \/ Render
    \/ OpenFile
    \/ WriteFile
    \/ PrintConfirmation
    \/ CloseFile

Spec == Init /\ [][Next]_vars

\* ------------------------------------------------- reading a skeleton back
\* Index of the first newline of t, 0 when there is none.
FirstNL(t) ==
    IF \E i \in 1..Len(t) : t[i] = NL
    THEN CHOOSE i \in 1..Len(t) : t[i] = NL /\ \A j \in 1..(i - 1) : t[j] # NL
    ELSE 0

\* The lines of t, each without its newline; what follows the last newline
\* is a line only when it is not empty.
RECURSIVE Lines(_)
Lines(t) ==
    LET i == FirstNL(t)
    IN  IF i = 0
        THEN (IF t = <<>> THEN <<>> ELSE <<t>>)
        ELSE <<SubSeq(t, 1, i - 1)>> \o Lines(SubSeq(t, i + 1, Len(t)))

CreateType == " = create_type(\""

IsTypeLine(l) ==
    /\ Len(l) >= 3
    /\ l[1] = "    "
    /\ l[Len(l)] = "\")"
    /\ \E i \in 2..(Len(l) - 1) : l[i] = CreateType

\* The identifier a type-declaration line binds and its quoted label.
TypeIdent(l) == SubSeq(l, 2, (CHOOSE i \in 2..(Len(l) - 1) : l[i] = CreateType) - 1)
TypeLabel(l) == SubSeq(l, (CHOOSE i \in 2..(Len(l) - 1) : l[i] = CreateType) + 1, Len(l) - 1)

TypeLines(t) == SelectSeq(Lines(t), IsTypeLine)

IsDefLine(l) == Len(l) >= 2 /\ l[1] = "    def " /\ l[Len(l)] = "(self):"

\* The method names of the stub blocks of t opened by the marker line, in
\* order: a block is the marker line followed by a def line.
RECURSIVE StubNamesFrom(_, _, _)
StubNamesFrom(L, marker, i) ==
    IF i >= Len(L) THEN <<>>
    ELSE (IF L[i] = <<marker>> /\ IsDefLine(L[i + 1])
          THEN <<SubSeq(L[i + 1], 2, Len(L[i + 1]) - 1)>>
          ELSE <<>>) \o StubNamesFrom(L, marker, i + 1)

PredicateNames(t) == StubNamesFrom(Lines(t), "    @predicate(...)", 1)

\* Number of lines of L that are the marker line.
MarkerCount(L, marker) == Cardinality({i \in 1..Len(L) : L[i] = <<marker>>})

CountSpaces(s) == Cardinality({i \in 1..Len(s) : s[i] = SPACE})

\* toks is s cut at every space: joining toks with spaces gives s back and
\* no token holds a space.
IsSplitOnSpace(toks, s) ==
    /\ toks # <<>>
    /\ join(<<SPACE>>, toks) = s
    /\ \A i \in 1..Len(toks) : \A j \in 1..Len(toks[i]) : toks[i][j] # SPACE

Rendered == template # <<>>
Succeeded == pc = "done" /\ error = "none"
Printed == \E i \in 1..Len(out) : out[i] = Confirmation
IsPrompt(o) == o # Confirmation
AllPrompts ==
    <<"Name: ", "Types (separated by space): ",
      "Predicates (separated by space): ", "Actions (separated by space): ">>
IsPrefix(s, t) == Len(s) <= Len(t) /\ s = SubSeq(t, 1, Len(s))

\* The entity name the claims expect for the trimmed Name answer s.
ExpectedName(s) == <<Upper(s[1])>> \o Tail(s)
DomainLine(n) == <<"class ">> \o n \o <<"Domain(Domain):">>
ProblemLine(n) == <<"class ">> \o n \o <<"Problem(">> \o n \o <<"Domain):">>
IsDomainLine(l) == Len(l) >= 2 /\ l[1] = "class " /\ l[Len(l)] = "Domain(Domain):"
IsProblemLine(l) == Len(l) >= 2 /\ l[1] = "class " /\ l[Len(l)] = "Domain):"

\* Blank lines directly before line j of L, and directly after line i.
BlanksBefore(L, j) ==
    CHOOSE n \in 0..(j - 1) :
        /\ \A k \in 1..n : L[j - k] = <<>>
        /\ (j - n - 1 = 0 \/ L[j - n - 1] # <<>>)
BlanksAfter(L, i) ==
    CHOOSE n \in 0..(Len(L) - i) :
        /\ \A k \in 1..n : L[i + k] = <<>>
        /\ (i + n + 1 > Len(L) \/ L[i + n + 1] # <<>>)

FirstIndex(L, Test(_)) ==
    CHOOSE i \in 1..Len(L) : Test(L[i]) /\ \A j \in 1..(i - 1) : ~Test(L[j])
IsPredicateMarker(l) == l = <<"    @predicate(...)">>
IsActionMarker(l) == l = <<"    @action(...)">>

\* The blank lines between consecutive major sections of the lines L:
\* header-types, types-predicates, predicates-actions, actions-problem
\* header, problem header-object stub.
Gaps(L) ==
    LET d == FirstIndex(L, IsDomainLine)
        p == FirstIndex(L, IsPredicateMarker)
        a == FirstIndex(L, IsActionMarker)
        q == FirstIndex(L, IsProblemLine)
    IN  <<BlanksAfter(L, d), BlanksBefore(L, p), BlanksBefore(L, a),
          BlanksBefore(L, q), BlanksAfter(L, q)>>

\* The sections lie around those gaps in the order of the template.
SectionsInOrder(L) ==
    LET d == FirstIndex(L, IsDomainLine)
        p == FirstIndex(L, IsPredicateMarker)
        a == FirstIndex(L, IsActionMarker)
        q == FirstIndex(L, IsProblemLine)
        g == Gaps(L)
    IN  /\ IsTypeLine(L[d + g[1] + 1])
        /\ IsTypeLine(L[p - g[2] - 1])
        /\ L[a - g[3] - 1] = <<"        \"\"\"Complete the method signature\"\"\"">>
        /\ L[q - g[4] - 1] = <<"        return precond, effect">>
        /\ L[q + g[5] + 1] = <<"    def __init__(self):">>
        /\ d < p /\ p < a /\ a < q

\* ---------------------------------------------------------------- claims

\* C1: when the destination exists at the check, the run ends at once with
\* FileExistsError: nothing was prompted or read, no write was attempted and
\* the file still holds what it held.
C1_ExistingDestinationAborts ==
    path_exists =>
        /\ pc = "done" /\ error = "FileExistsError"
        /\ out = <<>> /\ answered = 0
        /\ writes = 0 /\ ~fileOpen
        /\ fileExists /\ fileContent = OldContent
C1_Witness == path_exists /\ pc = "done" /\ error = "FileExistsError"

\* C2: a finished run on a fresh destination leaves either the complete
\* skeleton in the destination file or no destination file at all.
C2_NoPartialFile ==
    (pc = "done" /\ ~path_exists) =>
        \/ ~fileExists
        \/ fileExists /\ Rendered /\ fileContent = template

\* C3: an empty Name answer ends the run with the dedicated EmptyInputError,
\* with only the Name prompt issued and no file written.
C3_EmptyNameTypedError ==
    (answered >= 1 /\ name_answer = <<>>) =>
        /\ pc = "done" /\ error = "EmptyInputError"
        /\ out = <<NamePrompt>>
        /\ ~fileExists /\ writes = 0

\* C4: the prompts are issued at most once each in the order Name, Types,
\* Predicates, Actions, none before the destination check, all four before
\* the file is opened and the single write made, and a successful run
\* issued all four and read four answers.
C4_PromptOrder ==
    /\ IsPrefix(SelectSeq(out, IsPrompt), AllPrompts)
    /\ IsPrefix(out, AllPrompts \o <<Confirmation>>)
    /\ pc = "check" => out = <<>>
    /\ writes <= 1
    /\ (fileOpen \/ writes > 0 \/ pc \in {"render", "open", "write", "print", "close"}) =>
            SelectSeq(out, IsPrompt) = AllPrompts /\ answered = 4
    /\ Succeeded => SelectSeq(out, IsPrompt) = AllPrompts /\ answered = 4 /\ writes = 1
C4_Witness == Succeeded /\ out = AllPrompts \o <<Confirmation>>

\* C5 as stated: an empty Types answer gives the empty token list and no
\* type-declaration line, with both headers rendered; an empty Predicates
\* or Actions answer gives the empty token list.
C5_EmptyAnswerEmptyList ==
    /\ (answered >= 2 /\ user_types = <<>>) => types = <<>>
    /\ (answered >= 3 /\ user_predicates = <<>>) => predicates = <<>>
    /\ (answered >= 4 /\ user_actions = <<>>) => actions = <<>>
    /\ (Rendered /\ user_types = <<>>) =>
            LET L == Lines(template)
            IN  /\ SelectSeq(L, IsTypeLine) = <<>>
                /\ \E i \in 1..Len(L) : IsDomainLine(L[i])
                /\ \E i \in 1..Len(L) : IsProblemLine(L[i])

\* C5 amended: an answer that is empty after trimming gives the token list
\* holding one empty token; for Types the section is then the single line
\* `     = create_type("")`, and both headers are still rendered.
C5_EmptyAnswerOneEmptyToken ==
    /\ (answered >= 2 /\ user_types = <<>>) => types = << <<>> >>
    /\ (answered >= 3 /\ user_predicates = <<>>) => predicates = << <<>> >>
    /\ (answered >= 4 /\ user_actions = <<>>) => actions = << <<>> >>
    /\ (Rendered /\ user_types = <<>>) =>
            LET L == Lines(template)
            IN  /\ SelectSeq(L, IsTypeLine) = << <<"    ", CreateType, "\")">> >>
                /\ \E i \in 1..Len(L) : L[i] = DomainLine(class_name)
                /\ \E i \in 1..Len(L) : L[i] = ProblemLine(class_name)
C5_Witness ==
    Succeeded /\ user_types = <<>> /\ user_predicates = <<>> /\ user_actions = <<>>

\* C6: the type-declaration lines, predicate stub blocks and action stub
\* blocks of the skeleton are, one for one and in order, the tokens of the
\* trimmed answer cut at every single space (title-cased for types,
\* lower-cased otherwise): repeated tokens and empty tokens are kept.
C6_BlocksAreTokens ==
    Rendered =>
        LET L == Lines(template)
            T == SelectSeq(L, IsTypeLine)
            tn == [i \in 1..Len(T) |-> TypeIdent(T[i])]
            pn == StubNamesFrom(L, "    @predicate(...)", 1)
            an == StubNamesFrom(L, "    @action(...)", 1)
        IN  /\ IsSplitOnSpace(tn, title(user_types))
            /\ \A i \in 1..Len(T) : TypeLabel(T[i]) = tn[i]
            /\ IsSplitOnSpace(pn, lower(user_predicates))
            /\ IsSplitOnSpace(an, lower(user_actions))
            /\ Len(tn) = Len(split(user_types))
            /\ Len(pn) = Len(split(user_predicates))
            /\ Len(an) = Len(split(user_actions))
            /\ MarkerCount(L, "    @predicate(...)") = Len(pn)
            /\ MarkerCount(L, "    @action(...)") = Len(an)
C6_Witness ==
    /\ Succeeded
    /\ user_predicates = <<"a", SPACE, SPACE, "A">>
    /\ PredicateNames(fileContent) = << <<"a">>, <<>>, <<"a">> >>

\* C7 as stated: exactly one blank line separates every two consecutive
\* major sections of the skeleton.
C7_OneBlankLineEverywhere ==
    Rendered =>
        LET L == Lines(template)
        IN  SectionsInOrder(L) /\ Gaps(L) = <<1, 1, 1, 1, 1>>

\* C7 amended: exactly one blank line separates consecutive major sections,
\* except that exactly two blank lines lie between the last action stub
\* block and the problem header line.
C7_BlankLinesBetweenSections ==
    Rendered =>
        LET L == Lines(template)
        IN  SectionsInOrder(L) /\ Gaps(L) = <<1, 1, 1, 2, 1>>
C7_Witness ==
    /\ Succeeded
    /\ Len(predicates) = 2 /\ Len(actions) = 1
    /\ \A i \in 1..2 : predicates[i] # <<>>
    /\ Gaps(Lines(fileContent)) = <<1, 1, 1, 2, 1>>

\* C8: the entity name is the trimmed Name answer with only its first
\* character upper-cased, and the skeleton declares class <name>Domain and
\* class <name>Problem(<name>Domain) with that name.
C8_EntityName ==
    (answered >= 1 /\ name_answer # <<>>) =>
        /\ class_name = ExpectedName(name_answer)
        /\ Rendered =>
            LET L == Lines(template)
            IN  /\ SelectSeq(L, IsDomainLine) = <<DomainLine(ExpectedName(name_answer))>>
                /\ SelectSeq(L, IsProblemLine) = <<ProblemLine(ExpectedName(name_answer))>>
C8_Witness == Succeeded /\ name_answer = <<"a", "A">> /\ fileContent = template

\* C9: the confirmation is printed at most once, only when the handle is
\* released with the complete skeleton on storage, and never in a run that
\* ends with an error.
C9_ConfirmationOnlyOnSuccess ==
    /\ Cardinality({i \in 1..Len(out) : out[i] = Confirmation}) <= 1
    /\ Printed =>
        /\ ~fileOpen /\ buffered = <<>>
        /\ fileExists /\ fileContent = template
        /\ error = "none"

\* C10: each token list has 1 + (spaces in the trimmed answer) tokens, so it
\* is never empty, and every skeleton holds at least one type-declaration
\* line, one predicate stub block and one action stub block.
C10_TokenCount ==
    /\ answered >= 2 => Len(types) = 1 + CountSpaces(user_types)
    /\ answered >= 3 => Len(predicates) = 1 + CountSpaces(user_predicates)
    /\ answered >= 4 => Len(actions) = 1 + CountSpaces(user_actions)
    /\ Rendered =>
        LET L == Lines(template)
        IN  /\ Len(SelectSeq(L, IsTypeLine)) >= 1
            /\ MarkerCount(L, "    @predicate(...)") >= 1
            /\ MarkerCount(L, "    @action(...)") >= 1
    /\ (Succeeded /\ ~path_exists) =>
        LET L == Lines(fileContent)
        IN  /\ Len(SelectSeq(L, IsTypeLine)) = 1 + CountSpaces(user_types)
            /\ Len(StubNamesFrom(L, "    @predicate(...)", 1)) = 1 + CountSpaces(user_predicates)
            /\ Len(StubNamesFrom(L, "    @action(...)", 1)) = 1 + CountSpaces(user_actions)
C10_Witness ==
    /\ Succeeded
    /\ user_types = <<>>
    /\ user_predicates = <<"a", SPACE, SPACE, "a">>
    /\ Len(PredicateNames(fileContent)) = 3

====
